---------------------------- MODULE Spec2Model ----------------------------
(***************************************************************************)
(* A model of src/S3Util.js: the class S3Util, a facade over the AWS SDK   *)
(* v3 S3 client.  Every method but getPublicUrl is an async function that  *)
(* builds a params object, awaits this.s3.send(new XCommand(params)), and  *)
(* then logs and returns, or logs and rethrows.  A call is therefore three  *)
(* steps: the synchronous prefix up to the await (the method's action), the *)
(* provider's handling of the request (ProviderHandle), and the             *)
(* continuation after the await (Resume).  Logical tasks interleave at the  *)
(* await.  getPublicUrl has no await and is one step.                       *)
(*                                                                         *)
(* The storage provider is not part of the repository.  It is modelled as  *)
(* one immediately consistent store with the failure conditions the spec   *)
(* lists for each operation; the two places where the SDK's interface      *)
(* decides what the facade returns (config.region, ListObjectsV2 output)   *)
(* are modelled as the SDK (^3.629.0, src/unnamed/part_000 line 5) has     *)
(* them.  Timestamps (CreationDate, LastModified) are left out.            *)
(***************************************************************************)
EXTENDS Naturals, Sequences, FiniteSets, TLC

\* ------------------------------------------------------------- bounds
\* Calls one logical task issues, each awaited before the next (Spec).
MaxCalls == 4
\* Calls two logical tasks issue with their awaits interleaved (ConcurrentSpec).
MaxConcurrentCalls == 2

\* Logical tasks; a task has at most one call in flight.
Tasks == {1, 2}
Facades == {1, 2}

\* Inputs of the calls.  Bucket names and keys are listed in the provider's
\* listing order (UTF-8 binary order).
BucketOrder == <<"logs", "my-bucket">>
KeyOrder == <<"path/file.txt">>
Range(s) == {s[i] : i \in 1 .. Len(s)}
BucketNames == Range(BucketOrder)
Keys == Range(KeyOrder)
\* Payloads are byte sequences; the empty payload is one of them.
Payloads == {<<104, 105>>, <<>>}

\* The (region, accessKeyId, secretAccessKey) triples facades are built with.
ConnectionInputs ==
    { <<"us-west-2", "AKIA-A", "secret-a">>,
      <<"us-west-2", "AKIA-B", "secret-b">>,
      <<"eu-west-1", "AKIA-A", "secret-a">>,
      <<"us-west-2", "AKIA-A", "wrong">> }

\* The provider's accounts: the secret that signs for each access key id.
SecretOf == [k \in {"AKIA-A", "AKIA-B"} |->
                IF k = "AKIA-A" THEN "secret-a" ELSE "secret-b"]

\* ------------------------------------------------------- JavaScript values
Undefined == [t |-> "undefined"]
Str(s) == [t |-> "string", s |-> s]
Arr(a) == [t |-> "array", a |-> a]
Bytes(b) == [t |-> "bytes", b |-> b]
\* A function value; src is the text Function.prototype.toString gives.
Fn(src, ret) == [t |-> "function", src |-> src, ret |-> ret]

\* The string a template literal `${v}` puts in place of v.
TemplateToString(v) ==
    IF v.t = "string" THEN v.s
    ELSE IF v.t = "function" THEN v.src
    ELSE IF v.t = "undefined" THEN "undefined"
    ELSE "[object Object]"

\* ------------------------------------------------------------ the SDK client
\* The text of the async function the SDK's region resolver installs as
\* config.region (abbreviated; it does not contain the region's name).
RegionProviderSource == "async () => { /* resolves the region */ }"

\* new S3Client({region, credentials}): the resolved config keeps the
\* credentials and replaces region by an async provider of the region.
S3Client(configuration) ==
    [config |->
        [region |-> Fn(RegionProviderSource, configuration.region),
         credentials |-> configuration.credentials]]

\* S3Util.constructor
constructor(region, accessKeyId, secretAccessKey) ==
    [s3 |-> S3Client([region |-> region,
                      credentials |-> [accessKeyId |-> accessKeyId,
                                       secretAccessKey |-> secretAccessKey]])]

\* The request this.s3.send(command) puts on the wire: the command, and the
\* region and credentials the client resolves from its own config.
send(s3, command) ==
    [cmd |-> command.cmd,
     input |-> command.input,
     region |-> s3.config.region.ret,
     credentials |-> s3.config.credentials]

\* ------------------------------------------------- the methods' params
createBucketParams(bucketName) == [Bucket |-> bucketName]

\* The empty object {}.
listBucketsParams == <<>>

deleteBucketParams(bucketName) == [Bucket |-> bucketName]

\* uploadObjectParams without the ACL line.
uploadObjectParamsNoAcl(bucketName, key, body) ==
    [Bucket |-> bucketName, Key |-> key, Body |-> body]

uploadObjectParams(bucketName, key, body) ==
    [Bucket |-> bucketName, Key |-> key, Body |-> body, ACL |-> "public-read"]

listObjectsParams(bucketName) == [Bucket |-> bucketName]

downloadObjectParams(bucketName, key) == [Bucket |-> bucketName, Key |-> key]

deleteObjectParams(bucketName, key) == [Bucket |-> bucketName, Key |-> key]

\* makeObjectPublicParams with another canned ACL.
makeObjectPublicParamsAuthenticatedRead(bucketName, key) ==
    [Bucket |-> bucketName, Key |-> key, ACL |-> "authenticated-read"]

makeObjectPublicParams(bucketName, key) ==
    [Bucket |-> bucketName, Key |-> key, ACL |-> "public-read"]

\* The command each method constructs from its own arguments.
CommandOf(op, args) ==
    CASE op = "createBucket" ->
            [cmd |-> "CreateBucketCommand", input |-> createBucketParams(args.bucketName)]
      [] op = "listBuckets" ->
            [cmd |-> "ListBucketsCommand", input |-> listBucketsParams]
      [] op = "deleteBucket" ->
            [cmd |-> "DeleteBucketCommand", input |-> deleteBucketParams(args.bucketName)]
      [] op = "uploadObject" ->
            [cmd |-> "PutObjectCommand",
             input |-> uploadObjectParams(args.bucketName, args.key, args.body)]
      [] op = "listObjects" ->
            [cmd |-> "ListObjectsV2Command", input |-> listObjectsParams(args.bucketName)]
      [] op = "downloadObject" ->
            [cmd |-> "GetObjectCommand",
             input |-> downloadObjectParams(args.bucketName, args.key)]
      [] op = "deleteObject" ->
            [cmd |-> "DeleteObjectCommand",
             input |-> deleteObjectParams(args.bucketName, args.key)]
      [] op = "makeObjectPublic" ->
            [cmd |-> "PutObjectAclCommand",
             input |-> makeObjectPublicParams(args.bucketName, args.key)]

\* ------------------------------------------- the methods' continuations
\* What a call hands back to its caller, and one line of console output.
Return(v) == [kind |-> "return", value |-> v]
Throw(e) == [kind |-> "throw", value |-> e]
ConsoleLog(args) == [stream |-> "log", args |-> args]
ConsoleError(args) == [stream |-> "error", args |-> args]

\* JavaScript property access: a property the object lacks reads undefined.
Get(obj, field) == IF field \in DOMAIN obj THEN obj[field] ELSE Undefined

\* Each XThen is the rest of the try block after the await resolved with
\* data; each XCatch is the catch block, entered with the rejection err.
createBucketThen(bucketName, data) ==
    [trace |-> ConsoleLog(<<Str("Bucket \"" \o bucketName \o "\" created successfully.")>>),
     outcome |-> Return(Undefined)]

createBucketCatch(bucketName, err) ==
    [trace |-> ConsoleError(<<Str("Error creating bucket \"" \o bucketName \o "\":"),
                              Str(err.message)>>),
     outcome |-> Throw(err)]

\* listBucketsThen reading a property the output does not have.
listBucketsThenBucket(data) ==
    [trace |-> ConsoleLog(<<Str("Buckets:"), Get(data, "Bucket")>>),
     outcome |-> Return(Get(data, "Bucket"))]

listBucketsThen(data) ==
    [trace |-> ConsoleLog(<<Str("Buckets:"), Get(data, "Buckets")>>),
     outcome |-> Return(Get(data, "Buckets"))]

listBucketsCatch(err) ==
    [trace |-> ConsoleError(<<Str("Error listing buckets:"), Str(err.message)>>),
     outcome |-> Throw(err)]

deleteBucketThen(bucketName, data) ==
    [trace |-> ConsoleLog(<<Str("Bucket \"" \o bucketName \o "\" deleted successfully.")>>),
     outcome |-> Return(Undefined)]

\* deleteBucketCatch without the rethrow.
deleteBucketCatchSwallow(bucketName, err) ==
    [trace |-> ConsoleError(<<Str("Error deleting bucket \"" \o bucketName \o "\":"),
                              Str(err.message)>>),
     outcome |-> Return(Undefined)]

deleteBucketCatch(bucketName, err) ==
    [trace |-> ConsoleError(<<Str("Error deleting bucket \"" \o bucketName \o "\":"),
                              Str(err.message)>>),
     outcome |-> Throw(err)]

uploadObjectThen(bucketName, key, data) ==
    [trace |-> ConsoleLog(<<Str("Object \"" \o key \o "\" uploaded to bucket \""
                                \o bucketName \o "\" successfully.")>>),
     outcome |-> Return(Undefined)]

uploadObjectCatch(key, err) ==
    [trace |-> ConsoleError(<<Str("Error uploading object \"" \o key \o "\":"),
                              Str(err.message)>>),
     outcome |-> Throw(err)]

listObjectsThen(bucketName, data) ==
    [trace |-> ConsoleLog(<<Str("Objects in bucket \"" \o bucketName \o "\":"),
                            Get(data, "Contents")>>),
     outcome |-> Return(Get(data, "Contents"))]

listObjectsCatch(bucketName, err) ==
    [trace |-> ConsoleError(<<Str("Error listing objects in bucket \"" \o bucketName \o "\":"),
                              Str(err.message)>>),
     outcome |-> Throw(err)]

\* downloadObjectThen returning the whole output instead of its Body.
downloadObjectThenData(bucketName, key, data) ==
    [trace |-> ConsoleLog(<<Str("Object \"" \o key \o "\" downloaded from bucket \""
                                \o bucketName \o "\" successfully.")>>),
     outcome |-> Return([t |-> "object", o |-> data])]

downloadObjectThen(bucketName, key, data) ==
    [trace |-> ConsoleLog(<<Str("Object \"" \o key \o "\" downloaded from bucket \""
                                \o bucketName \o "\" successfully.")>>),
     outcome |-> Return(Get(data, "Body"))]

downloadObjectCatch(key, err) ==
    [trace |-> ConsoleError(<<Str("Error downloading object \"" \o key \o "\":"),
                              Str(err.message)>>),
     outcome |-> Throw(err)]

deleteObjectThen(bucketName, key, data) ==
    [trace |-> ConsoleLog(<<Str("Object \"" \o key \o "\" deleted from bucket \""
                                \o bucketName \o "\" successfully.")>>),
     outcome |-> Return(Undefined)]

\* deleteObjectCatch without the rethrow.
deleteObjectCatchSwallow(key, err) ==
    [trace |-> ConsoleError(<<Str("Error deleting object \"" \o key \o "\":"),
                              Str(err.message)>>),
     outcome |-> Return(Undefined)]

deleteObjectCatch(key, err) ==
    [trace |-> ConsoleError(<<Str("Error deleting object \"" \o key \o "\":"),
                              Str(err.message)>>),
     outcome |-> Throw(err)]

makeObjectPublicThen(bucketName, key, data) ==
    [trace |-> ConsoleLog(<<Str("Object \"" \o key \o "\" in bucket \""
                                \o bucketName \o "\" is now public.")>>),
     outcome |-> Return(Undefined)]

makeObjectPublicCatch(key, err) ==
    [trace |-> ConsoleError(<<Str("Error making object \"" \o key \o "\" public:"),
                              Str(err.message)>>),
     outcome |-> Throw(err)]

\* The continuation of a call of op once the awaited send settled with res.
Continuation(op, args, res) ==
    CASE op = "createBucket" ->
            IF res.ok THEN createBucketThen(args.bucketName, res.data)
            ELSE createBucketCatch(args.bucketName, res.err)
      [] op = "listBuckets" ->
            IF res.ok THEN listBucketsThen(res.data) ELSE listBucketsCatch(res.err)
      [] op = "deleteBucket" ->
            IF res.ok THEN deleteBucketThen(args.bucketName, res.data)
            ELSE deleteBucketCatch(args.bucketName, res.err)
      [] op = "uploadObject" ->
            IF res.ok THEN uploadObjectThen(args.bucketName, args.key, res.data)
            ELSE uploadObjectCatch(args.key, res.err)
      [] op = "listObjects" ->
            IF res.ok THEN listObjectsThen(args.bucketName, res.data)
            ELSE listObjectsCatch(args.bucketName, res.err)
      [] op = "downloadObject" ->
            IF res.ok THEN downloadObjectThen(args.bucketName, args.key, res.data)
            ELSE downloadObjectCatch(args.key, res.err)
      [] op = "deleteObject" ->
            IF res.ok THEN deleteObjectThen(args.bucketName, args.key, res.data)
            ELSE deleteObjectCatch(args.key, res.err)
      [] op = "makeObjectPublic" ->
            IF res.ok THEN makeObjectPublicThen(args.bucketName, args.key, res.data)
            ELSE makeObjectPublicCatch(args.key, res.err)

\* getPublicUrl asking the provider whether the object is there.
getPublicUrlBodyHead(self, bucketName, key) ==
    LET publicUrl == "https://" \o bucketName \o ".s3."
                     \o TemplateToString(self.s3.config.region)
                     \o ".amazonaws.com/" \o key
    IN  [sends |-> 1,
         trace |-> ConsoleLog(<<Str("Public URL: " \o publicUrl)>>),
         outcome |-> Return(Str(publicUrl))]

\* getPublicUrl: the whole method; it has no await and sends nothing.
getPublicUrlBody(self, bucketName, key) ==
    LET publicUrl == "https://" \o bucketName \o ".s3."
                     \o TemplateToString(self.s3.config.region)
                     \o ".amazonaws.com/" \o key
    IN  [sends |-> 0,
         trace |-> ConsoleLog(<<Str("Public URL: " \o publicUrl)>>),
         outcome |-> Return(Str(publicUrl))]

\* --------------------------------------------------- the storage provider
\* Provider state: buckets[b] and objects[b][k].
NoBucket == [exists |-> FALSE]
Bucket(owner, region) == [exists |-> TRUE, owner |-> owner, region |-> region]
NoObject == [exists |-> FALSE]
Object(body, acl) == [exists |-> TRUE, body |-> body, acl |-> acl]
NoObjects == [k \in Keys |-> NoObject]

\* What the awaited send settles with.
Resolved(data) == [ok |-> TRUE, data |-> data]
Rejected(name, message) ==
    [ok |-> FALSE, err |-> [t |-> "error", name |-> name, message |-> message]]
Metadata == [httpStatusCode |-> 200]

IsEmpty(objs) == \A k \in Keys : ~objs[k].exists

Authenticated(req) ==
    /\ req.credentials.accessKeyId \in DOMAIN SecretOf
    /\ SecretOf[req.credentials.accessKeyId] = req.credentials.secretAccessKey

\* The failure, if any, that stops a request on bucket b before its own
\* effect: bad signature, no such bucket, wrong region, not the owner.
\* ownerOnly is FALSE for a read that an object's public-read ACL may allow.
BucketFailure(req, bkts, b, ownerOnly) ==
    IF ~Authenticated(req)
    THEN Rejected("SignatureDoesNotMatch", "The request signature we calculated does not match")
    ELSE IF ~bkts[b].exists
    THEN Rejected("NoSuchBucket", "The specified bucket does not exist")
    ELSE IF bkts[b].region # req.region
    THEN Rejected("PermanentRedirect", "The bucket must be addressed using the specified endpoint")
    ELSE IF ownerOnly /\ bkts[b].owner # req.credentials.accessKeyId
    THEN Rejected("AccessDenied", "Access Denied")
    ELSE Resolved(Metadata)

Unchanged(res, bkts, objs) == [res |-> res, buckets |-> bkts, objects |-> objs]

CreateBucket(req, bkts, objs) ==
    LET b == req.input.Bucket IN
    IF ~Authenticated(req)
    THEN Unchanged(Rejected("SignatureDoesNotMatch",
                            "The request signature we calculated does not match"), bkts, objs)
    ELSE IF bkts[b].exists
    THEN Unchanged(IF bkts[b].owner = req.credentials.accessKeyId
                   THEN Rejected("BucketAlreadyOwnedByYou",
                                 "Your previous request to create the named bucket succeeded")
                   ELSE Rejected("BucketAlreadyExists",
                                 "The requested bucket name is not available"), bkts, objs)
    ELSE [res |-> Resolved(Metadata),
          buckets |-> [bkts EXCEPT ![b] = Bucket(req.credentials.accessKeyId, req.region)],
          objects |-> [objs EXCEPT ![b] = NoObjects]]

\* The caller's buckets, in name order.
ListBuckets(req, bkts, objs) ==
    IF ~Authenticated(req)
    THEN Unchanged(Rejected("SignatureDoesNotMatch",
                            "The request signature we calculated does not match"), bkts, objs)
    ELSE LET mine(b) == bkts[b].exists /\ bkts[b].owner = req.credentials.accessKeyId
             names == SelectSeq(BucketOrder, mine)
         IN  Unchanged(Resolved([Buckets |-> Arr([i \in 1 .. Len(names) |-> [Name |-> names[i]]])]),
                       bkts, objs)

DeleteBucket(req, bkts, objs) ==
    LET b == req.input.Bucket
        f == BucketFailure(req, bkts, b, TRUE)
    IN  IF ~f.ok THEN Unchanged(f, bkts, objs)
        ELSE IF ~IsEmpty(objs[b])
        THEN Unchanged(Rejected("BucketNotEmpty",
                                "The bucket you tried to delete is not empty"), bkts, objs)
        ELSE [res |-> Resolved(Metadata),
              buckets |-> [bkts EXCEPT ![b] = NoBucket],
              objects |-> objs]

\* Stores the body under the key; the ACL is the request's, private if none.
PutObject(req, bkts, objs) ==
    LET b == req.input.Bucket
        f == BucketFailure(req, bkts, b, TRUE)
        acl == IF "ACL" \in DOMAIN req.input THEN req.input.ACL ELSE "private"
    IN  IF ~f.ok THEN Unchanged(f, bkts, objs)
        ELSE [res |-> Resolved(Metadata),
              buckets |-> bkts,
              objects |-> [objs EXCEPT ![b][req.input.Key] = Object(req.input.Body, acl)]]

\* The SDK's ListObjectsV2 output: Contents is set only when the listing
\* holds at least one object.
ListObjectsV2Output(contents) ==
    IF Len(contents) = 0
    THEN [KeyCount |-> 0]
    ELSE [KeyCount |-> Len(contents), Contents |-> Arr(contents)]

ListObjectsV2(req, bkts, objs) ==
    LET b == req.input.Bucket
        f == BucketFailure(req, bkts, b, TRUE)
        present(k) == objs[b][k].exists
        keys == SelectSeq(KeyOrder, present)
        contents == [i \in 1 .. Len(keys) |->
                        [Key |-> keys[i], Size |-> Len(objs[b][keys[i]].body.b)]]
    IN  IF ~f.ok THEN Unchanged(f, bkts, objs)
        ELSE Unchanged(Resolved(ListObjectsV2Output(contents)), bkts, objs)

\* The owner reads any object of the bucket; another account reads only an
\* object whose ACL is public-read.
GetObject(req, bkts, objs) ==
    LET b == req.input.Bucket
        k == req.input.Key
        f == BucketFailure(req, bkts, b, FALSE)
        owner == bkts[b].owner = req.credentials.accessKeyId
    IN  IF ~f.ok THEN Unchanged(f, bkts, objs)
        ELSE IF ~owner /\ ~(objs[b][k].exists /\ objs[b][k].acl = "public-read")
        THEN Unchanged(Rejected("AccessDenied", "Access Denied"), bkts, objs)
        ELSE IF ~objs[b][k].exists
        THEN Unchanged(Rejected("NoSuchKey", "The specified key does not exist."), bkts, objs)
        ELSE Unchanged(Resolved([Body |-> objs[b][k].body]), bkts, objs)

\* Deleting a key the bucket does not hold succeeds; only the bucket-level
\* failures are reported.
DeleteObject(req, bkts, objs) ==
    LET b == req.input.Bucket
        f == BucketFailure(req, bkts, b, TRUE)
    IN  IF ~f.ok THEN Unchanged(f, bkts, objs)
        ELSE [res |-> Resolved(Metadata),
              buckets |-> bkts,
              objects |-> [objs EXCEPT ![b][req.input.Key] = NoObject]]

PutObjectAcl(req, bkts, objs) ==
    LET b == req.input.Bucket
        k == req.input.Key
        f == BucketFailure(req, bkts, b, TRUE)
    IN  IF ~f.ok THEN Unchanged(f, bkts, objs)
        ELSE IF ~objs[b][k].exists
        THEN Unchanged(Rejected("NoSuchKey", "The specified key does not exist."), bkts, objs)
        ELSE [res |-> Resolved(Metadata),
              buckets |-> bkts,
              objects |-> [objs EXCEPT ![b][k].acl = req.input.ACL]]

\* The provider's answer to one request, and the store after it.
Provider(req, bkts, objs) ==
    CASE req.cmd = "CreateBucketCommand" -> CreateBucket(req, bkts, objs)
      [] req.cmd = "ListBucketsCommand" -> ListBuckets(req, bkts, objs)
      [] req.cmd = "DeleteBucketCommand" -> DeleteBucket(req, bkts, objs)
      [] req.cmd = "PutObjectCommand" -> PutObject(req, bkts, objs)
      [] req.cmd = "ListObjectsV2Command" -> ListObjectsV2(req, bkts, objs)
      [] req.cmd = "GetObjectCommand" -> GetObject(req, bkts, objs)
      [] req.cmd = "DeleteObjectCommand" -> DeleteObject(req, bkts, objs)
      [] req.cmd = "PutObjectAclCommand" -> PutObjectAcl(req, bkts, objs)

\* ------------------------------------------------------------------ state
VARIABLES
    facade,        \* facade[f]: the S3Util object f, that is its field s3
    built,         \* built[f]: the arguments facade f was constructed with
    task,          \* task[t]: the call task t has made, and how far it got
    buckets,       \* the provider's buckets
    objects,       \* the provider's objects
    budget,        \* calls the application still issues
    uploaded,      \* uploaded[b][k]: the payload argument of the last successful
                   \* uploadObject(b, k, _), if nothing wrote the key since
    lastBucketOp,  \* lastBucketOp[b]: the last successful create or delete of b
    madePublic     \* madePublic[b][k]: the facades whose makeObjectPublic(b, k)
                   \* succeeded on the object now stored there

vars == <<facade, built, task, buckets, objects, budget, uploaded, lastBucketOp, madePublic>>
ghosts == <<uploaded, lastBucketOp, madePublic>>
provider == <<buckets, objects>>

Pending == [pending |-> TRUE]
IdleTask == [pc |-> "idle"]
NotUploaded == [t |-> "none"]
NoBucketOp == [op |-> "none"]

\* The stores a behaviour may start from: nothing, or one bucket holding a
\* private object that another client of the provider put there.
InitialStores ==
    { [buckets |-> [b \in BucketNames |-> NoBucket],
       objects |-> [b \in BucketNames |-> NoObjects]],
      [buckets |-> [b \in BucketNames |->
                       IF b = "my-bucket" THEN Bucket("AKIA-A", "us-west-2") ELSE NoBucket],
       objects |-> [b \in BucketNames |-> [k \in Keys |->
                       IF b = "my-bucket" /\ k = "path/file.txt"
                       THEN Object(Bytes(<<104, 105>>), "private") ELSE NoObject]]] }

\* The state once the facades are constructed and before any call.
Constructed ==
    /\ built \in [Facades -> ConnectionInputs]
    /\ built[1] = <<"us-west-2", "AKIA-A", "secret-a">>
    /\ facade = [f \in Facades |-> constructor(built[f][1], built[f][2], built[f][3])]
    /\ task = [t \in Tasks |-> IdleTask]
    /\ \E s \in InitialStores : buckets = s.buckets /\ objects = s.objects
    /\ uploaded = [b \in BucketNames |-> [k \in Keys |-> NotUploaded]]
    /\ lastBucketOp = [b \in BucketNames |-> NoBucketOp]
    /\ madePublic = [b \in BucketNames |-> [k \in Keys |-> {}]]

Init == Constructed /\ budget = MaxCalls

ConcurrentInit == Constructed /\ budget = MaxConcurrentCalls

\* One client shared by the facades: that of the facade constructed last.
ClientOfShared(f) == facade[2].s3

\* this.s3 of facade f.
ClientOf(f) == facade[f].s3

\* A task may call when it has no call in flight and calls are left to issue.
CanCall(t) == budget > 0 /\ task[t].pc \in {"idle", "returned"}

\* The synchronous prefix of an async method of facade f: build the params,
\* construct the command, hand it to this.s3.send, and suspend at the await.
Await(f, op, args) ==
    [pc |-> "sent", facade |-> f, op |-> op, args |-> args,
     req |-> send(ClientOf(f), CommandOf(op, args)),
     sends |-> 1, traces |-> <<>>,
     res |-> Pending, outcome |-> Pending, seen |-> Pending]

createBucket(t, f, bucketName) ==
    /\ CanCall(t)
    /\ task' = [task EXCEPT ![t] = Await(f, "createBucket", [bucketName |-> bucketName])]
    /\ budget' = budget - 1
    /\ UNCHANGED <<facade, built, provider, ghosts>>

listBuckets(t, f) ==
    /\ CanCall(t)
    /\ task' = [task EXCEPT ![t] = Await(f, "listBuckets", <<>>)]
    /\ budget' = budget - 1
    /\ UNCHANGED <<facade, built, provider, ghosts>>

deleteBucket(t, f, bucketName) ==
    /\ CanCall(t)
    /\ task' = [task EXCEPT ![t] = Await(f, "deleteBucket", [bucketName |-> bucketName])]
    /\ budget' = budget - 1
    /\ UNCHANGED <<facade, built, provider, ghosts>>

uploadObject(t, f, bucketName, key, body) ==
    /\ CanCall(t)
    /\ task' = [task EXCEPT ![t] =
                  Await(f, "uploadObject",
                        [bucketName |-> bucketName, key |-> key, body |-> body])]
    /\ budget' = budget - 1
    /\ UNCHANGED <<facade, built, provider, ghosts>>

listObjects(t, f, bucketName) ==
    /\ CanCall(t)
    /\ task' = [task EXCEPT ![t] = Await(f, "listObjects", [bucketName |-> bucketName])]
    /\ budget' = budget - 1
    /\ UNCHANGED <<facade, built, provider, ghosts>>

downloadObject(t, f, bucketName, key) ==
    /\ CanCall(t)
    /\ task' = [task EXCEPT ![t] =
                  Await(f, "downloadObject", [bucketName |-> bucketName, key |-> key])]
    /\ budget' = budget - 1
    /\ UNCHANGED <<facade, built, provider, ghosts>>

deleteObject(t, f, bucketName, key) ==
    /\ CanCall(t)
    /\ task' = [task EXCEPT ![t] =
                  Await(f, "deleteObject", [bucketName |-> bucketName, key |-> key])]
    /\ budget' = budget - 1
    /\ UNCHANGED <<facade, built, provider, ghosts>>

makeObjectPublic(t, f, bucketName, key) ==
    /\ CanCall(t)
    /\ task' = [task EXCEPT ![t] =
                  Await(f, "makeObjectPublic", [bucketName |-> bucketName, key |-> key])]
    /\ budget' = budget - 1
    /\ UNCHANGED <<facade, built, provider, ghosts>>

\* What the task's previous call returned, when that call was a getPublicUrl.
PreviousUrl(c) ==
    IF c.pc = "returned" /\ c.op = "getPublicUrl"
    THEN [facade |-> c.facade, args |-> c.args, outcome |-> c.outcome]
    ELSE Pending

\* getPublicUrl runs to its end in one step.
getPublicUrl(t, f, bucketName, key) ==
    /\ CanCall(t)
    /\ LET r == getPublicUrlBody(facade[f], bucketName, key) IN
       task' = [task EXCEPT ![t] =
                  [pc |-> "returned", facade |-> f, op |-> "getPublicUrl",
                   args |-> [bucketName |-> bucketName, key |-> key],
                   req |-> Pending, sends |-> r.sends, traces |-> <<r.trace>>,
                   res |-> Pending, outcome |-> r.outcome,
                   seen |-> PreviousUrl(task[t])]]
    /\ budget' = budget - 1
    /\ UNCHANGED <<facade, built, provider, ghosts>>

\* What the provider's state was for the call, taken as the provider
\* handles its request.
Seen(c) ==
    CASE c.op = "downloadObject" ->
            [uploaded |-> uploaded[c.args.bucketName][c.args.key]]
      [] c.op = "listBuckets" ->
            [lastBucketOp |-> lastBucketOp]
      [] c.op = "makeObjectPublic" ->
            [madePublic |-> c.facade \in madePublic[c.args.bucketName][c.args.key]]
      [] c.op = "deleteBucket" ->
            [nonEmpty |-> ~IsEmpty(objects[c.args.bucketName]),
             authorized |-> LET b == buckets[c.args.bucketName] IN
                            /\ b.exists
                            /\ b.owner = built[c.facade][2]
                            /\ b.region = built[c.facade][1]
                            /\ SecretOf[built[c.facade][2]] = built[c.facade][3]]
      [] c.op = "listObjects" ->
            [count |-> Cardinality({k \in Keys : objects[c.args.bucketName][k].exists})]
      [] OTHER -> Pending

\* The provider handles the request of task t and the awaited send settles.
ProviderHandle(t) ==
    /\ task[t].pc = "sent"
    /\ LET c == task[t]
           r == Provider(c.req, buckets, objects)
           b == c.args.bucketName
           k == c.args.key
       IN  /\ task' = [task EXCEPT ![t].pc = "responded", ![t].res = r.res,
                                   ![t].seen = Seen(c)]
           /\ buckets' = r.buckets
           /\ objects' = r.objects
           /\ uploaded' =
                IF r.res.ok /\ c.op = "uploadObject"
                THEN [uploaded EXCEPT ![b][k] = c.args.body]
                ELSE IF r.res.ok /\ c.op = "deleteObject"
                THEN [uploaded EXCEPT ![b][k] = NotUploaded]
                ELSE uploaded
           /\ lastBucketOp' =
                IF r.res.ok /\ c.op \in {"createBucket", "deleteBucket"}
                THEN [lastBucketOp EXCEPT ![b] = [op |-> c.op, by |-> c.facade]]
                ELSE lastBucketOp
           /\ madePublic' =
                IF r.res.ok /\ c.op = "makeObjectPublic"
                THEN [madePublic EXCEPT ![b][k] = @ \cup {c.facade}]
                ELSE IF r.res.ok /\ c.op \in {"uploadObject", "deleteObject"}
                THEN [madePublic EXCEPT ![b][k] = {}]
                ELSE madePublic
    /\ UNCHANGED <<facade, built, budget>>

\* The continuation after the await: log and return, or log and rethrow.
Resume(t) ==
    /\ task[t].pc = "responded"
    /\ LET c == task[t]
           r == Continuation(c.op, c.args, c.res)
       IN  task' = [task EXCEPT ![t].pc = "returned",
                                ![t].outcome = r.outcome,
                                ![t].traces = Append(c.traces, r.trace)]
    /\ UNCHANGED <<facade, built, provider, budget, ghosts>>

\* The steps of task t.
Step(t) ==
    \/ \E f \in Facades, b \in BucketNames : createBucket(t, f, b)
    \/ \E f \in Facades : listBuckets(t, f)
    \/ \E f \in Facades, b \in BucketNames : deleteBucket(t, f, b)
    \/ \E f \in Facades, b \in BucketNames, k \in Keys, p \in Payloads :
          uploadObject(t, f, b, k, Bytes(p))
    \/ \E f \in Facades, b \in BucketNames, k \in Keys : getPublicUrl(t, f, b, k)
    \/ \E f \in Facades, b \in BucketNames : listObjects(t, f, b)
    \/ \E f \in Facades, b \in BucketNames, k \in Keys : downloadObject(t, f, b, k)
    \/ \E f \in Facades, b \in BucketNames, k \in Keys : deleteObject(t, f, b, k)
    \/ \E f \in Facades, b \in BucketNames, k \in Keys : makeObjectPublic(t, f, b, k)
    \/ ProviderHandle(t)
    \/ Resume(t)

\* One logical task that awaits each call before it makes the next.
Next == Step(1)

Spec == Init /\ [][Next]_vars

\* Two logical tasks; each suspends at its await and the other may run.
ConcurrentNext == \E t \in Tasks : Step(t)

ConcurrentSpec == ConcurrentInit /\ [][ConcurrentNext]_vars

\* ----------------------------------------------------------------- claims
Returned(t, op) == task[t].pc = "returned" /\ task[t].op = op
Settled(t, op) == task[t].pc \in {"responded", "returned"} /\ task[t].op = op
AsyncOps == {"createBucket", "listBuckets", "deleteBucket", "uploadObject",
             "listObjects", "downloadObject", "deleteObject", "makeObjectPublic"}

\* C1: getPublicUrl(bucket, key) of a facade constructed with region r
\* returns exactly "https://{bucket}.s3.{r}.amazonaws.com/{key}".
C1_PublicUrlHasRegion ==
    \A t \in Tasks :
        Returned(t, "getPublicUrl") =>
            task[t].outcome =
                Return(Str("https://" \o task[t].args.bucketName \o ".s3."
                           \o built[task[t].facade][1]
                           \o ".amazonaws.com/" \o task[t].args.key))

\* C2: a call whose send was rejected with error e has invoked the transport
\* exactly once, written exactly one line to console.error carrying
\* e.message, and thrown e itself; it has not returned a value.
C2_FailurePropagates ==
    \A t \in Tasks :
        (task[t].pc # "idle" /\ task[t].op \in AsyncOps) =>
            /\ task[t].sends = 1
            /\ (task[t].pc = "returned" /\ ~task[t].res.ok) =>
                  /\ task[t].outcome = Throw(task[t].res.err)
                  /\ Len(task[t].traces) = 1
                  /\ task[t].traces[1].stream = "error"
                  /\ task[t].traces[1].args[2] = Str(task[t].res.err.message)

\* A deleteObject on a bucket the provider does not have has thrown the
\* provider's NoSuchBucket.
C2_Witness ==
    \E t \in Tasks :
        /\ Returned(t, "deleteObject")
        /\ ~task[t].res.ok
        /\ task[t].res.err.name = "NoSuchBucket"
        /\ task[t].outcome.kind = "throw"

\* C3: every request uploadObject sends is a PutObject with ACL public-read,
\* and every object an uploadObject stored has the access policy public-read.
C3_UploadIsPublicRead ==
    /\ \A t \in Tasks :
          (task[t].pc # "idle" /\ task[t].op = "uploadObject") =>
             /\ task[t].req.cmd = "PutObjectCommand"
             /\ "ACL" \in DOMAIN task[t].req.input
             /\ task[t].req.input.ACL = "public-read"
    /\ \A b \in BucketNames, k \in Keys :
          uploaded[b][k] # NotUploaded =>
             objects[b][k].exists /\ objects[b][k].acl = "public-read"

\* An uploadObject has returned and its object is stored.
C3_Witness ==
    \E t \in Tasks :
        /\ Returned(t, "uploadObject")
        /\ task[t].res.ok
        /\ uploaded[task[t].args.bucketName][task[t].args.key] = task[t].args.body
        /\ objects[task[t].args.bucketName][task[t].args.key].acl = "public-read"

\* C4: getPublicUrl never invokes the transport (no send, no request), and a
\* getPublicUrl repeated on the same facade with the same bucket and key
\* returns the value the call before it returned.
C4_PublicUrlIsLocal ==
    \A t \in Tasks :
        (task[t].pc # "idle" /\ task[t].op = "getPublicUrl") =>
            /\ task[t].pc = "returned"
            /\ task[t].sends = 0
            /\ task[t].req = Pending
            /\ task[t].outcome.kind = "return"
            /\ (/\ task[t].seen # Pending
                /\ task[t].seen.facade = task[t].facade
                /\ task[t].seen.args = task[t].args) =>
                  task[t].outcome = task[t].seen.outcome

\* A getPublicUrl has been repeated with the same facade, bucket and key.
C4_Witness ==
    \E t \in Tasks :
        /\ Returned(t, "getPublicUrl")
        /\ task[t].seen # Pending
        /\ task[t].seen.facade = task[t].facade
        /\ task[t].seen.args = task[t].args

\* C5: a downloadObject(bucket, key) that returns, handled while the object
\* is the one the last successful uploadObject(bucket, key, payload) stored
\* (no other write to the key in between), returns exactly payload.
C5_RoundTrip ==
    \A t \in Tasks :
        (/\ Returned(t, "downloadObject")
         /\ task[t].outcome.kind = "return"
         /\ task[t].seen.uploaded # NotUploaded) =>
            task[t].outcome.value = task[t].seen.uploaded

\* A download has returned the empty payload an upload stored.
C5_Witness ==
    \E t \in Tasks :
        /\ Returned(t, "downloadObject")
        /\ task[t].outcome.kind = "return"
        /\ task[t].seen.uploaded = Bytes(<<>>)

\* The array v holds a descriptor of bucket b.
ContainsBucket(v, b) == v.t = "array" /\ \E i \in 1 .. Len(v.a) : v.a[i].Name = b

\* C6: a listBuckets that returns contains every bucket whose last successful
\* create or delete, as the provider handled the listing, was a createBucket
\* through a facade of the caller's account, and contains no bucket whose
\* last such operation was a deleteBucket.
C6_ListTracksBuckets ==
    \A t \in Tasks :
        (Returned(t, "listBuckets") /\ task[t].outcome.kind = "return") =>
            \A b \in BucketNames :
                LET h == task[t].seen.lastBucketOp[b] IN
                /\ (/\ h.op = "createBucket"
                    /\ built[h.by][2] = built[task[t].facade][2]) =>
                      ContainsBucket(task[t].outcome.value, b)
                /\ h.op = "deleteBucket" =>
                      ~ContainsBucket(task[t].outcome.value, b)

\* A listing has returned after one bucket was created and another was
\* created and then deleted.
C6_Witness ==
    \E t \in Tasks :
        /\ Returned(t, "listBuckets")
        /\ task[t].outcome.kind = "return"
        /\ \E b \in BucketNames :
              /\ task[t].seen.lastBucketOp[b].op = "createBucket"
              /\ ContainsBucket(task[t].outcome.value, b)
        /\ \E b \in BucketNames :
              /\ task[t].seen.lastBucketOp[b].op = "deleteBucket"
              /\ ~ContainsBucket(task[t].outcome.value, b)

\* The provider handles the deleteBucket of task t while the bucket holds an
\* object.
HandlesDeleteOfNonEmpty(t) ==
    /\ task[t].pc = "sent"
    /\ task[t].op = "deleteBucket"
    /\ ~IsEmpty(objects[task[t].args.bucketName])
    /\ task'[t].pc = "responded"

\* C7: a deleteBucket handled while the bucket holds an object is rejected,
\* with BucketNotEmpty when the caller is the bucket's owner addressing the
\* bucket's region, the call throws that rejection, and the step that
\* handles it leaves every bucket and every object as it was.
C7_NonEmptyBucketStays ==
    /\ [](\A t \in Tasks :
            (Settled(t, "deleteBucket") /\ task[t].seen.nonEmpty) =>
               /\ ~task[t].res.ok
               /\ task[t].seen.authorized => task[t].res.err.name = "BucketNotEmpty"
               /\ task[t].pc = "returned" => task[t].outcome = Throw(task[t].res.err))
    /\ [][\A t \in Tasks :
            HandlesDeleteOfNonEmpty(t) => (buckets' = buckets /\ objects' = objects)]_vars

\* The owner's deleteBucket has thrown BucketNotEmpty and the object is
\* still there.
C7_Witness ==
    \E t \in Tasks :
        /\ Returned(t, "deleteBucket")
        /\ task[t].seen.nonEmpty
        /\ task[t].seen.authorized
        /\ task[t].outcome.kind = "throw"
        /\ task[t].outcome.value.name = "BucketNotEmpty"
        /\ ~IsEmpty(objects[task[t].args.bucketName])

\* C8: a listObjects that returns hands back a sequence with one descriptor
\* for each object of the bucket; for a bucket without objects that is the
\* empty sequence, not an absent value.
C8_ListObjectsReturnsSequence ==
    \A t \in Tasks :
        (Returned(t, "listObjects") /\ task[t].outcome.kind = "return") =>
            /\ task[t].outcome.value.t = "array"
            /\ Len(task[t].outcome.value.a) = task[t].seen.count

\* The provider handles the makeObjectPublic of task t on an object that an
\* earlier makeObjectPublic of the same facade made public.
HandlesRepeatedMakePublic(t) ==
    /\ task[t].pc = "sent"
    /\ task[t].op = "makeObjectPublic"
    /\ task[t].facade \in madePublic[task[t].args.bucketName][task[t].args.key]
    /\ task'[t].pc = "responded"

\* C9: once a makeObjectPublic succeeded on an object its access policy is
\* public-read; a further makeObjectPublic of the same facade on that object
\* succeeds too, returns nothing, and the step that handles it leaves every
\* object, access policies included, as it was.
C9_MakePublicIdempotent ==
    /\ [](/\ \A b \in BucketNames, k \in Keys :
                madePublic[b][k] # {} =>
                    objects[b][k].exists /\ objects[b][k].acl = "public-read"
          /\ \A t \in Tasks :
                (Settled(t, "makeObjectPublic") /\ task[t].seen.madePublic) =>
                   /\ task[t].res.ok
                   /\ task[t].pc = "returned" => task[t].outcome = Return(Undefined))
    /\ [][\A t \in Tasks :
            HandlesRepeatedMakePublic(t) => (buckets' = buckets /\ objects' = objects)]_vars

\* A second makeObjectPublic on an object that was private has returned.
C9_Witness ==
    \E t \in Tasks :
        /\ Returned(t, "makeObjectPublic")
        /\ task[t].seen.madePublic
        /\ uploaded[task[t].args.bucketName][task[t].args.key] = NotUploaded
        /\ task[t].outcome = Return(Undefined)

\* The request of the call c carries the connection facade c.facade was
\* constructed with and, of arguments, exactly those of c.
OwnRequest(c) ==
    /\ c.req.region = built[c.facade][1]
    /\ c.req.credentials = [accessKeyId |-> built[c.facade][2],
                            secretAccessKey |-> built[c.facade][3]]
    /\ "Bucket" \in DOMAIN c.req.input <=> "bucketName" \in DOMAIN c.args
    /\ "Key" \in DOMAIN c.req.input <=> "key" \in DOMAIN c.args
    /\ "Body" \in DOMAIN c.req.input <=> "body" \in DOMAIN c.args
    /\ "bucketName" \in DOMAIN c.args => c.req.input.Bucket = c.args.bucketName
    /\ "key" \in DOMAIN c.args => c.req.input.Key = c.args.key
    /\ "body" \in DOMAIN c.args => c.req.input.Body = c.args.body

\* C10: whatever the interleaving of the calls of two tasks on one facade or
\* on two, no step changes a facade's connection, which stays the region and
\* credentials it was constructed with, and the request of every call is
\* built from that call's own arguments and its own facade's connection.
C10_ConnectionIsolated ==
    /\ [](/\ \A f \in Facades :
                /\ facade[f].s3.config.region.ret = built[f][1]
                /\ facade[f].s3.config.credentials =
                      [accessKeyId |-> built[f][2], secretAccessKey |-> built[f][3]]
          /\ \A t \in Tasks :
                (task[t].pc # "idle" /\ task[t].op \in AsyncOps) => OwnRequest(task[t]))
    /\ [][facade' = facade /\ built' = built]_vars

\* Two calls are in flight at once, through facades constructed with
\* different connections and with different params.
C10_Witness ==
    /\ task[1].pc = "sent"
    /\ task[2].pc = "sent"
    /\ task[1].facade # task[2].facade
    /\ built[1] # built[2]
    /\ task[1].req.input # task[2].req.input

=============================================================================
